---- MODULE Spec2Model ----
(***************************************************************************)
(* Model of the RecallBricks TypeScript client: construction (credential   *)
(* check, defaults), the endpoint methods' local validation, the subject   *)
(* id check, the retry loop executeWithRetry with its backoff, and the     *)
(* conversion of transport failures into RecallBricksError.                *)
(*                                                                         *)
(* Optional JavaScript values are modelled as sequences of length at most  *)
(* one: None (undefined) is << >>, Some(v) is << v >>.                     *)
(***************************************************************************)
EXTENDS Integers, Sequences, FiniteSets, TLC

VARIABLES
    config,      \* the RecallBricksConfig passed to the last constructor call, or None
    client,      \* the constructed RecallBricks instance (its readonly fields)
    ctorError,   \* the error the constructor threw, or None
    calls        \* per call in flight: position in the method and its locals

vars == << config, client, ctorError, calls >>

----------------------------------------------------------------------------
(* Optional values and JavaScript truthiness                               *)

None == << >>

Some(v) == << v >>

\* !x for an optional number: undefined and 0 are falsy.
TruthyNum(x) == x /= None /\ x[1] /= 0

\* !x for an optional string: undefined and "" are falsy.
TruthyStr(x) == x /= None /\ x[1] /= ""

\* x || d for an optional number
OrDefaultNum(x, d) == IF TruthyNum(x) THEN x[1] ELSE d

Min(a, b) == IF a <= b THEN a ELSE b

RECURSIVE Pow2(_)
Pow2(n) == IF n <= 0 THEN 1 ELSE 2 * Pow2(n - 1)

RECURSIVE SumSeq(_)
SumSeq(s) == IF s = << >> THEN 0 ELSE Head(s) + SumSeq(Tail(s))

----------------------------------------------------------------------------
(* Bounds of the model                                                     *)

\* largest maxRetries a caller passes explicitly
MaxRetriesCfg == 2

\* largest retryDelay and maxRetryDelay (ms) a caller passes to the backoff study
MaxDelayCfg == 4

\* largest attempt index the backoff study computes a delay for
MaxAttemptIdx == 4

----------------------------------------------------------------------------
(* Program constants                                                       *)

DefaultTimeout == 30000

DefaultMaxRetries == 3

DefaultRetryDelay == 1000

DefaultMaxRetryDelay == 10000

DefaultBaseUrl == "http://localhost:10002/api/v1"

----------------------------------------------------------------------------
(* RecallBricksError and the other error values a call can surface         *)

RecallBricksError(message, statusCode, code, details) ==
    [ name       |-> "RecallBricksError",
      message    |-> message,
      statusCode |-> statusCode,
      code       |-> code,
      details    |-> details ]

\* A JavaScript error that is not a RecallBricksError (TypeError, Error...)
PlainError(name, message) ==
    [ name       |-> name,
      message    |-> message,
      statusCode |-> None,
      code       |-> None,
      details    |-> None ]

----------------------------------------------------------------------------
(* Construction                                                            *)

NoClient == [ built |-> FALSE ]

\* ConstructorCheck testing the credentials against undefined only
ConstructorCheckUndefinedOnly(cfg) ==
    IF cfg.apiKey = None /\ cfg.serviceToken = None
    THEN Some(RecallBricksError("Either apiKey or serviceToken must be provided",
                                Some(400), Some("MISSING_AUTH"), None))
    ELSE IF cfg.apiKey /= None /\ cfg.serviceToken /= None
    THEN Some(RecallBricksError("Provide either apiKey or serviceToken, not both",
                                Some(400), Some("INVALID_AUTH_CONFIG"), None))
    ELSE None

\* The error the constructor throws for cfg, or None when it goes through.
ConstructorCheck(cfg) ==
    IF ~TruthyStr(cfg.apiKey) /\ ~TruthyStr(cfg.serviceToken)
    THEN Some(RecallBricksError("Either apiKey or serviceToken must be provided",
                                Some(400), Some("MISSING_AUTH"), None))
    ELSE IF TruthyStr(cfg.apiKey) /\ TruthyStr(cfg.serviceToken)
    THEN Some(RecallBricksError("Provide either apiKey or serviceToken, not both",
                                Some(400), Some("INVALID_AUTH_CONFIG"), None))
    ELSE None

\* config.timeout || 30000
TimeoutOf(cfg) == OrDefaultNum(cfg.timeout, DefaultTimeout)

\* HeadersOf sending the api key header whatever the credential
HeadersOfApiKeyOnly(cfg) ==
    { << "X-API-Key", cfg.apiKey >>, << "Content-Type", Some("application/json") >> }

\* The headers of the axios instance, as name-value pairs; the value is the
\* credential as given (config.apiKey! is whatever the config holds)
HeadersOf(cfg) ==
    { IF TruthyStr(cfg.serviceToken)
      THEN << "X-Service-Token", cfg.serviceToken >>
      ELSE << "X-API-Key", cfg.apiKey >> }
    \cup { << "Content-Type", Some("application/json") >> }

\* config.maxRetries || 3, config.retryDelay || 1000, config.maxRetryDelay || 10000
RetryConfigOf(cfg) ==
    [ maxRetries    |-> OrDefaultNum(cfg.maxRetries, DefaultMaxRetries),
      retryDelay    |-> OrDefaultNum(cfg.retryDelay, DefaultRetryDelay),
      maxRetryDelay |-> OrDefaultNum(cfg.maxRetryDelay, DefaultMaxRetryDelay) ]

\* The instance the constructor leaves behind when it does not throw
BuiltClient(cfg) ==
    [ built             |-> TRUE,
      baseURL           |-> IF TruthyStr(cfg.baseUrl) THEN cfg.baseUrl[1]
                            ELSE DefaultBaseUrl,
      timeout           |-> TimeoutOf(cfg),
      usingServiceToken |-> TruthyStr(cfg.serviceToken),
      headers           |-> HeadersOf(cfg),
      retryConfig       |-> RetryConfigOf(cfg) ]

----------------------------------------------------------------------------
(* Strings that the endpoint methods trim: sequences of characters         *)

IsSpace(ch) == ch = " "

RECURSIVE TrimLeft(_)
TrimLeft(s) == IF s /= << >> /\ IsSpace(Head(s)) THEN TrimLeft(Tail(s)) ELSE s

RECURSIVE TrimRight(_)
TrimRight(s) ==
    IF s /= << >> /\ IsSpace(s[Len(s)]) THEN TrimRight(SubSeq(s, 1, Len(s) - 1)) ELSE s

\* String.prototype.trim
Trim(s) == TrimRight(TrimLeft(s))

\* the blankness test without the trim
IsBlankEmptyOnly(text) == text = << >>

\* !text || text.trim().length === 0
IsBlank(text) == text = << >> \/ Len(Trim(text)) = 0

----------------------------------------------------------------------------
(* The endpoint methods: arguments and local validation                    *)

Methods ==
    { "createMemory", "listMemories", "search", "getRelationships",
      "getGraphContext", "deleteMemory", "updateMemory", "predictMemories",
      "suggestMemories", "getLearningMetrics", "getPatterns", "searchWeighted" }

\* methods that call validateUserId
SubjectScoped ==
    { "createMemory", "listMemories", "search", "predictMemories",
      "suggestMemories", "searchWeighted" }

\* methods whose first argument (text, query, context, memoryId) must not be blank
TextChecked ==
    { "createMemory", "search", "getRelationships", "getGraphContext",
      "deleteMemory", "updateMemory", "suggestMemories", "searchWeighted" }

DefaultDepth == 2

DefaultDays == 30

MinDepth == 1

MaxDepth == 10

MinDays == 1

InvalidInput(message) == RecallBricksError(message, Some(400), Some("INVALID_INPUT"), None)

TextMessage(m) ==
    CASE m = "createMemory" -> "Text is required"
      [] m \in { "search", "searchWeighted" } -> "Query is required"
      [] m = "suggestMemories" -> "Context is required"
      [] OTHER -> "Memory ID is required"

\* The method's own argument validation: the error it throws, or None
ValidateArgs(args) ==
    LET m == args.method
        depth == IF args.depth = None THEN DefaultDepth ELSE args.depth[1]
        days  == IF args.days = None THEN DefaultDays ELSE args.days[1]
    IN  IF m \in TextChecked /\ IsBlank(args.text)
        THEN Some(InvalidInput(TextMessage(m)))
        ELSE IF m = "getGraphContext" /\ (depth < MinDepth \/ depth > MaxDepth)
        THEN Some(InvalidInput("Depth must be between 1 and 10"))
        ELSE IF m = "updateMemory" /\ args.updates.text = None /\ args.updates.tags = None
        THEN Some(InvalidInput("Updates are required"))
        ELSE IF m = "updateMemory" /\ args.updates.text /= None
                /\ Len(Trim(args.updates.text[1])) = 0
        THEN Some(InvalidInput("Text cannot be empty"))
        ELSE IF m \in { "getLearningMetrics", "getPatterns" } /\ days < MinDays
        THEN Some(InvalidInput("Days must be at least 1"))
        ELSE None

\* validateUserId testing userId against undefined only
validateUserIdUndefinedOnly(cl, userId) ==
    IF cl.usingServiceToken /\ userId = None
    THEN Some(RecallBricksError("userId is required when using service token authentication",
                                Some(400), Some("MISSING_USER_ID"), None))
    ELSE None

\* validateUserId quoting the credential in its message
validateUserIdLeaky(cl, userId) ==
    IF cl.usingServiceToken /\ ~TruthyStr(userId)
    THEN Some(RecallBricksError(
                  (CHOOSE h \in cl.headers : h[1] = "X-Service-Token")[2][1],
                  Some(400), Some("MISSING_USER_ID"), None))
    ELSE None

\* validateUserId: the error it throws, or None
validateUserId(cl, userId) ==
    IF cl.usingServiceToken /\ ~TruthyStr(userId)
    THEN Some(RecallBricksError("userId is required when using service token authentication",
                                Some(400), Some("MISSING_USER_ID"), None))
    ELSE None

\* LocalCheck with validateUserId ahead of the argument validation
LocalCheckUserIdFirst(cl, args) ==
    IF args.method \in SubjectScoped /\ validateUserId(cl, args.userId) /= None
    THEN validateUserId(cl, args.userId)
    ELSE ValidateArgs(args)

\* Everything a method does before it hands over to executeWithRetry
LocalCheck(cl, args) ==
    IF ValidateArgs(args) /= None THEN ValidateArgs(args)
    ELSE IF args.method \in SubjectScoped THEN validateUserId(cl, args.userId)
    ELSE None

----------------------------------------------------------------------------
(* Outcomes of one invocation of the request function                      *)

\* error.response.data as axios decodes it
FullBody ==
    [ shape |-> "object", error |-> Some("Service unavailable"),
      code |-> Some("E_SERVER"), details |-> Some("upstream detail") ]

EmptyObjectBody == [ shape |-> "object", error |-> None, code |-> None, details |-> None ]

HtmlBody == [ shape |-> "string", error |-> None, code |-> None, details |-> None ]

NullBody == [ shape |-> "null", error |-> None, code |-> None, details |-> None ]

NoBody == [ shape |-> "none", error |-> None, code |-> None, details |-> None ]

\* response.data of a 2xx response, as field-value pairs: one lacking fields
\* of the declared type, one with fields the declared type does not have
SparseBody == { << "id", "mem-1" >> }

ExtraBody ==
    { << "id", "mem-1" >>, << "text", "hello" >>, << "unexpected_field", "12345" >> }

\* kind: "ok" (2xx), "axios" (an AxiosError) or "other" (any other thrown value)
Ok(body) ==
    [ kind |-> "ok", hasResponse |-> TRUE, hasRequest |-> TRUE, status |-> 200,
      data |-> NoBody, body |-> body, message |-> "" ]

HttpError(status, data) ==
    [ kind |-> "axios", hasResponse |-> TRUE, hasRequest |-> TRUE, status |-> status,
      data |-> data, body |-> "",
      message |-> "Request failed with status code " \o ToString(status) ]

\* the request went out and nothing came back: connection failure or timeout
NoResponseError(message) ==
    [ kind |-> "axios", hasResponse |-> FALSE, hasRequest |-> TRUE, status |-> 0,
      data |-> NoBody, body |-> "", message |-> message ]

\* an AxiosError raised before the request was dispatched
SetupError ==
    [ kind |-> "axios", hasResponse |-> FALSE, hasRequest |-> FALSE, status |-> 0,
      data |-> NoBody, body |-> "", message |-> "Invalid URL" ]

\* a thrown value that axios.isAxiosError does not recognise
OtherError ==
    [ kind |-> "other", hasResponse |-> FALSE, hasRequest |-> FALSE, status |-> 0,
      data |-> NoBody, body |-> "", message |-> "Converting circular structure to JSON" ]

Statuses == { 400, 401, 403, 404, 429, 500, 503, 504, 505 }

Outcomes ==
    { Ok(b) : b \in { SparseBody, ExtraBody } }
    \cup { HttpError(s, FullBody) : s \in Statuses }
    \cup { HttpError(s, d) : s \in { 400, 503 }, d \in { EmptyObjectBody, HtmlBody, NullBody } }
    \cup { NoResponseError("timeout of 100ms exceeded"), SetupError, OtherError }

----------------------------------------------------------------------------
(* Retry loop                                                              *)

\* isRetryableError with an open upper end: every status from 500 up
isRetryableErrorAll5xx(error) ==
    IF ~error.hasResponse THEN TRUE
    ELSE error.status = 429 \/ error.status >= 500

\* isRetryableError(error: AxiosError)
isRetryableError(error) ==
    IF ~error.hasResponse THEN TRUE
    ELSE error.status = 429 \/ (error.status >= 500 /\ error.status <= 504)

\* calculateBackoff without the Math.min cap
calculateBackoffUncapped(cl, attempt) ==
    cl.retryConfig.retryDelay * Pow2(attempt)

\* calculateBackoff(attempt)
calculateBackoff(cl, attempt) ==
    Min(cl.retryConfig.retryDelay * Pow2(attempt), cl.retryConfig.maxRetryDelay)

\* handleAxiosError leaving statusCode unset when there is no response
handleAxiosErrorNoStatus(error) ==
    IF error.hasResponse
    THEN IF error.data.shape = "null"
         THEN PlainError("TypeError", "Cannot read properties of null (reading 'error')")
         ELSE RecallBricksError(
                  IF TruthyStr(error.data.error) THEN error.data.error[1] ELSE error.message,
                  Some(error.status), error.data.code, error.data.details)
    ELSE IF error.hasRequest
    THEN RecallBricksError("No response received from server", None, Some("NO_RESPONSE"), None)
    ELSE RecallBricksError(error.message, None, Some("REQUEST_SETUP_ERROR"), None)

\* handleAxiosError(error): the RecallBricksError it returns; reading a field of
\* a null body raises a TypeError in its place.
handleAxiosError(error) ==
    IF error.hasResponse
    THEN IF error.data.shape = "null"
         THEN PlainError("TypeError", "Cannot read properties of null (reading 'error')")
         ELSE RecallBricksError(
                  IF TruthyStr(error.data.error) THEN error.data.error[1] ELSE error.message,
                  Some(error.status), error.data.code, error.data.details)
    ELSE IF error.hasRequest
    THEN RecallBricksError("No response received from server", Some(0), Some("NO_RESPONSE"), None)
    ELSE RecallBricksError(error.message, Some(0), Some("REQUEST_SETUP_ERROR"), None)

\* RawError wrapping what was caught into a RecallBricksError
RawErrorWrapped(error) == RecallBricksError(error.message, Some(500), None, None)

\* An error value rethrown as it was caught (no conversion)
RawError(error) ==
    PlainError(IF error.kind = "axios" THEN "AxiosError" ELSE "Error", error.message)

\* the throw after the loop: lastError || new RecallBricksError(...)
AfterLoopError(lastError) ==
    IF lastError /= None THEN RawError(lastError[1])
    ELSE RecallBricksError("Request failed after retries", Some(500), None, None)

----------------------------------------------------------------------------
(* Inputs                                                                  *)

Credentials(present) == { None, Some("") } \cup { Some(v) : v \in present }

OptNums(values) == { None } \cup { Some(v) : v \in values }

\* every configuration the constructor is given
Configs ==
    [ apiKey        : Credentials({ "key-A" }),
      serviceToken  : Credentials({ "tok-A" }),
      baseUrl       : { None, Some("https://api.example.test/v1") },
      timeout       : OptNums({ 0, 100 }),
      maxRetries    : OptNums(-1 .. MaxRetriesCfg),
      retryDelay    : OptNums({ 0, 3 }),
      maxRetryDelay : OptNums({ 0, 5 }) ]

\* the configurations of the clients that calls are made on
CallConfigs ==
    { cfg \in Configs :
        /\ cfg.apiKey /= Some("") /\ cfg.serviceToken /= Some("")
        /\ cfg.baseUrl = None /\ cfg.timeout = None
        /\ << cfg.retryDelay, cfg.maxRetryDelay >> \in
              { << None, None >>, << Some(3), Some(5) >>, << None, Some(5) >> } }

Texts == { << >>, << " " >>, << "a" >> }

UserIds == { None, Some(""), Some("user-1") }

NoUpdates == [ text |-> None, tags |-> None ]

Updates ==
    { NoUpdates, [ text |-> Some(<< " " >>), tags |-> None ],
      [ text |-> Some(<< "a" >>), tags |-> None ], [ text |-> None, tags |-> Some("t") ] }

Args(m, text, userId, depth, days, updates) ==
    [ method |-> m, text |-> text, userId |-> userId, depth |-> depth, days |-> days,
      updates |-> updates ]

\* the arguments each method is called with
CallArgs ==
    { Args(m, t, u, None, None, NoUpdates) :
        m \in { "createMemory", "search", "suggestMemories", "searchWeighted" },
        t \in Texts, u \in UserIds }
    \cup { Args(m, << >>, u, None, None, NoUpdates) :
             m \in { "listMemories", "predictMemories" }, u \in UserIds }
    \cup { Args(m, t, None, None, None, NoUpdates) :
             m \in { "getRelationships", "deleteMemory" }, t \in Texts }
    \cup { Args("getGraphContext", t, None, d, None, NoUpdates) :
             t \in Texts, d \in OptNums({ 0, 1, 10, 11 }) }
    \cup { Args("updateMemory", t, None, None, None, up) : t \in Texts, up \in Updates }
    \cup { Args(m, << >>, None, None, d, NoUpdates) :
             m \in { "getLearningMetrics", "getPatterns" }, d \in OptNums({ 0, 1 }) }

\* the calls of the sequential caller, and of concurrent callers
SeqCalls == { 1 }

CallIds == { 1, 2 }

----------------------------------------------------------------------------
(* What an observer of the network records about one attempt               *)

OutcomeClass(o) ==
    CASE o.kind = "ok" -> "ok"
      [] o.kind = "other" -> "other"
      [] o.kind = "axios" /\ ~o.hasResponse -> "retryable"
      [] o.kind = "axios" /\ o.hasResponse
           /\ (o.status = 429 \/ o.status \in 500 .. 504) -> "retryable"
      [] OTHER -> "terminal"

----------------------------------------------------------------------------
(* State                                                                   *)

IdleCall ==
    [ pc           |-> "idle",   \* idle, awaiting, sleeping, returned, thrown
      args         |-> None,
      attempt      |-> 0,        \* the loop variable of executeWithRetry
      lastError    |-> None,
      result       |-> None,     \* the value the call resolved with
      error        |-> None,     \* the value the call rejected with
      requestCalls |-> 0,        \* invocations of requestFn
      slept        |-> << >>,    \* the backoff delays slept, in order
      outcome      |-> None,     \* what the latest attempt produced
      requests     |-> << >>,    \* the request each invocation of requestFn sent
      heard        |-> << >>,    \* the outcomes the call was given (concurrent study)
      log          |-> << >> ]   \* the class of each attempt's outcome, in order

Init ==
    /\ config = None
    /\ client = NoClient
    /\ ctorError = None
    /\ calls = [ c \in CallIds |-> IdleCall ]

\* new RecallBricks(cfg)
Construct(cfg) ==
    /\ config = None
    /\ config' = Some(cfg)
    /\ ctorError' = ConstructorCheck(cfg)
    /\ client' = IF ConstructorCheck(cfg) /= None THEN NoClient ELSE BuiltClient(cfg)
    /\ UNCHANGED calls

\* this.client.get / post / patch / delete of each method
VerbOf(m) ==
    CASE m \in { "createMemory", "search", "predictMemories", "suggestMemories",
                 "searchWeighted" } -> "POST"
      [] m = "deleteMemory" -> "DELETE"
      [] m = "updateMemory" -> "PATCH"
      [] OTHER -> "GET"

\* the url of each method: its template and the memory id put into it
PathOf(args) ==
    LET m == args.method
    IN  CASE m \in { "createMemory", "listMemories" } ->
               [ template |-> "/memories", id |-> << >> ]
          [] m = "search" -> [ template |-> "/memories/search", id |-> << >> ]
          [] m = "getRelationships" ->
               [ template |-> "/memories/${memoryId}/relationships", id |-> args.text ]
          [] m = "getGraphContext" ->
               [ template |-> "/memories/${memoryId}/graph", id |-> args.text ]
          [] m \in { "deleteMemory", "updateMemory" } ->
               [ template |-> "/memories/${memoryId}", id |-> args.text ]
          [] m = "predictMemories" -> [ template |-> "/memories/predict", id |-> << >> ]
          [] m = "suggestMemories" -> [ template |-> "/memories/suggest", id |-> << >> ]
          [] m = "getLearningMetrics" ->
               [ template |-> "/analytics/learning-metrics", id |-> << >> ]
          [] m = "getPatterns" -> [ template |-> "/analytics/patterns", id |-> << >> ]
          [] OTHER -> [ template |-> "/memories/search-weighted", id |-> << >> ]

\* the body or the query parameters requestFn builds from the arguments
PayloadOf(args) ==
    LET m == args.method
    IN  [ text    |-> IF m \in { "createMemory", "search", "suggestMemories",
                                 "searchWeighted" }
                      THEN Some(args.text) ELSE None,
          user_id |-> IF m \in SubjectScoped /\ TruthyStr(args.userId)
                      THEN args.userId ELSE None,
          depth   |-> IF m = "getGraphContext"
                      THEN Some(IF args.depth = None THEN DefaultDepth ELSE args.depth[1])
                      ELSE None,
          days    |-> IF m \in { "getLearningMetrics", "getPatterns" }
                      THEN Some(IF args.days = None THEN DefaultDays ELSE args.days[1])
                      ELSE None,
          updates |-> IF m = "updateMemory" THEN args.updates ELSE NoUpdates ]

\* the request one invocation of requestFn hands to the axios instance
RequestOf(cl, args) ==
    [ verb    |-> VerbOf(args.method),
      path    |-> PathOf(args),
      payload |-> PayloadOf(args),
      headers |-> cl.headers ]

\* LoopHead whose retries leave user_id out of the payload
LoopHeadRetryDropsUserId(cl, cs) ==
    IF cs.attempt <= cl.retryConfig.maxRetries
    THEN [ cs EXCEPT !.pc = "awaiting", !.requestCalls = @ + 1,
                     !.requests = Append(@,
                         IF cs.attempt = 0 THEN RequestOf(cl, cs.args[1])
                         ELSE [ RequestOf(cl, cs.args[1]) EXCEPT !.payload.user_id = None ]) ]
    ELSE [ cs EXCEPT !.pc = "thrown", !.error = Some(AfterLoopError(cs.lastError)) ]

\* LoopHead with the loop test attempt < maxRetries
LoopHeadStrict(cl, cs) ==
    IF cs.attempt < cl.retryConfig.maxRetries
    THEN [ cs EXCEPT !.pc = "awaiting", !.requestCalls = @ + 1,
                     !.requests = Append(@, RequestOf(cl, cs.args[1])) ]
    ELSE [ cs EXCEPT !.pc = "thrown", !.error = Some(AfterLoopError(cs.lastError)) ]

\* The head of the for loop: test attempt <= maxRetries, then either invoke
\* requestFn (and wait for it) or leave the loop and throw.
LoopHead(cl, cs) ==
    IF cs.attempt <= cl.retryConfig.maxRetries
    THEN [ cs EXCEPT !.pc = "awaiting", !.requestCalls = @ + 1,
                     !.requests = Append(@, RequestOf(cl, cs.args[1])) ]
    ELSE [ cs EXCEPT !.pc = "thrown", !.error = Some(AfterLoopError(cs.lastError)) ]

\* A method is called: local validation, subject id check, entry into
\* executeWithRetry up to its first await.
Invoked(cl, args) ==
    IF LocalCheck(cl, args) /= None
    THEN [ IdleCall EXCEPT !.pc = "thrown", !.args = Some(args),
                           !.error = LocalCheck(cl, args) ]
    ELSE LoopHead(cl, [ IdleCall EXCEPT !.args = Some(args) ])

Invoke(c, args) ==
    /\ client.built
    /\ calls[c].pc = "idle"
    /\ calls' = [ calls EXCEPT ![c] = Invoked(client, args) ]
    /\ UNCHANGED << config, client, ctorError >>

\* ReturnValue returning true from every method, as deleteMemory does
ReturnValueAlwaysTrue(args, o) == [ type |-> "boolean", value |-> "true" ]

\* ReturnValue keeping the fields of the declared response type only
ReturnValueDeclaredFields(args, o) ==
    IF args.method = "deleteMemory" THEN [ type |-> "boolean", value |-> "true" ]
    ELSE [ type |-> "body", value |-> { f \in o.body : f[1] \in { "id", "text" } } ]

\* the value a method returns from a successful attempt
ReturnValue(args, o) ==
    IF args.method = "deleteMemory" THEN [ type |-> "boolean", value |-> "true" ]
    ELSE [ type |-> "body", value |-> o.body ]

\* ExhaustedError converting the error remembered from the attempt before
ExhaustedErrorStale(cs, o) ==
    handleAxiosError(IF cs.lastError /= None THEN cs.lastError[1] ELSE o)

\* the throw when the last permitted attempt failed: handleAxiosError(error)
ExhaustedError(cs, o) == handleAxiosError(o)

\* The body of the try/catch for one outcome o of requestFn
AfterAttempt(cl, cs, o) ==
    LET seen == [ cs EXCEPT !.outcome = Some(o),
                            !.log = Append(@, OutcomeClass(o)) ]
        failed == [ seen EXCEPT !.lastError = Some(o) ]
    IN  IF o.kind = "ok"
        THEN [ seen EXCEPT !.pc = "returned", !.result = Some(ReturnValue(cs.args[1], o)) ]
        ELSE IF o.kind = "axios"
        THEN IF ~isRetryableError(o)
             THEN [ failed EXCEPT !.pc = "thrown", !.error = Some(handleAxiosError(o)) ]
             ELSE IF cs.attempt = cl.retryConfig.maxRetries
             THEN [ failed EXCEPT !.pc = "thrown", !.error = Some(ExhaustedError(cs, o)) ]
             ELSE [ failed EXCEPT !.pc = "sleeping",
                                  !.slept = Append(@, calculateBackoff(cl, cs.attempt)) ]
        ELSE [ failed EXCEPT !.pc = "thrown", !.error = Some(RawError(o)) ]

\* requestFn settles with outcome o
Respond(c, o) ==
    /\ calls[c].pc = "awaiting"
    /\ calls' = [ calls EXCEPT ![c] = AfterAttempt(client, calls[c], o) ]
    /\ UNCHANGED << config, client, ctorError >>

\* the backoff timer fires: attempt++ and back to the head of the loop
\* Woken leaving the call asleep
WokenStillAsleep(cl, cs) == cs

Woken(cl, cs) == LoopHead(cl, [ cs EXCEPT !.attempt = @ + 1 ])

\* Wake with the attempt counter shared by all the calls of the client
WakeSharedAttempt(c) ==
    /\ calls[c].pc = "sleeping"
    /\ calls' = [ d \in CallIds |->
                    IF d = c THEN Woken(client, calls[c])
                    ELSE [ calls[d] EXCEPT !.attempt = @ + 1 ] ]
    /\ UNCHANGED << config, client, ctorError >>

Wake(c) ==
    /\ calls[c].pc = "sleeping"
    /\ calls' = [ calls EXCEPT ![c] = Woken(client, calls[c]) ]
    /\ UNCHANGED << config, client, ctorError >>

\* Settle putting the default retry delay back into the client's retry policy
SettleResetsDelay(c) ==
    /\ calls[c].pc \in { "returned", "thrown" }
    /\ calls' = [ calls EXCEPT ![c] = IdleCall ]
    /\ client' = [ client EXCEPT !.retryConfig.retryDelay = DefaultRetryDelay ]
    /\ UNCHANGED << config, ctorError >>

\* The caller has seen the call settle; its next call starts afresh.
Settle(c) ==
    /\ calls[c].pc \in { "returned", "thrown" }
    /\ calls' = [ calls EXCEPT ![c] = IdleCall ]
    /\ UNCHANGED << config, client, ctorError >>

DoConstruct == \E cfg \in CallConfigs : Construct(cfg)

DoInvoke == \E c \in SeqCalls, args \in CallArgs : Invoke(c, args)

DoRespond == \E c \in SeqCalls, o \in Outcomes : Respond(c, o)

DoWake == \E c \in SeqCalls : Wake(c)

DoSettle == \E c \in SeqCalls : Settle(c)

Next == DoConstruct \/ DoInvoke \/ DoRespond \/ DoWake \/ DoSettle

Spec == Init /\ [][Next]_vars

\* Spec where every attempt is answered and every sleep ends
SpecLive == Spec /\ WF_vars(DoRespond) /\ WF_vars(DoWake)

\* Construction alone, over every configuration
ConstructAny == \E cfg \in Configs : Construct(cfg)

SpecConstruct == Init /\ [][ConstructAny]_vars

\* One api-key client, one call at a time, answered with every HTTP error
\* status (axios rejects what is not 2xx) or with no response at all
StatusConfigs ==
    { cfg \in CallConfigs :
        /\ cfg.apiKey = Some("key-A") /\ cfg.serviceToken = None
        /\ cfg.maxRetries \in { Some(1), Some(2) }
        /\ cfg.retryDelay = Some(3) }

StatusArgs ==
    { Args("listMemories", << >>, None, None, None, NoUpdates),
      Args("deleteMemory", << "a" >>, None, None, None, NoUpdates) }

StatusOutcomes ==
    { HttpError(s, FullBody) : s \in 300 .. 599 }
    \cup { NoResponseError("timeout of 100ms exceeded"), SetupError }

ConstructStatus == \E cfg \in StatusConfigs : Construct(cfg)

InvokeStatus == \E args \in StatusArgs : Invoke(1, args)

RespondStatus == \E o \in StatusOutcomes : Respond(1, o)

NextStatus == ConstructStatus \/ InvokeStatus \/ RespondStatus \/ DoWake \/ DoSettle

SpecStatus == Init /\ [][NextStatus]_vars

\* Two clients that differ only in the value of their credential, given the
\* same calls and the same responses: call 1 runs on the client, call 2 on its
\* twin, in lockstep
TwinCfg(cfg) ==
    IF TruthyStr(cfg.serviceToken)
    THEN [ cfg EXCEPT !.serviceToken = Some("tok-B") ]
    ELSE [ cfg EXCEPT !.apiKey = Some("key-B") ]

ClientOf(c) == IF c = 1 THEN client ELSE BuiltClient(TwinCfg(config[1]))

TwinInvoke(args) ==
    /\ client.built
    /\ \A c \in CallIds : calls[c].pc = "idle"
    /\ calls' = [ c \in CallIds |-> Invoked(ClientOf(c), args) ]
    /\ UNCHANGED << config, client, ctorError >>

TwinRespond(o) ==
    /\ \A c \in CallIds : calls[c].pc = "awaiting"
    /\ calls' = [ c \in CallIds |-> AfterAttempt(ClientOf(c), calls[c], o) ]
    /\ UNCHANGED << config, client, ctorError >>

TwinWake ==
    /\ \A c \in CallIds : calls[c].pc = "sleeping"
    /\ calls' = [ c \in CallIds |-> Woken(ClientOf(c), calls[c]) ]
    /\ UNCHANGED << config, client, ctorError >>

TwinSettle ==
    /\ \A c \in CallIds : calls[c].pc \in { "returned", "thrown" }
    /\ calls' = [ c \in CallIds |-> IdleCall ]
    /\ UNCHANGED << config, client, ctorError >>

DoTwinInvoke == \E args \in CallArgs : TwinInvoke(args)

DoTwinRespond == \E o \in Outcomes : TwinRespond(o)

NextTwin == DoConstruct \/ DoTwinInvoke \/ DoTwinRespond \/ TwinWake \/ TwinSettle

SpecTwin == Init /\ [][NextTwin]_vars

\* Several calls in flight on one client (Promise.all over calls): every
\* interleaving of their steps; each call keeps the outcomes it was given
ConcConfigs ==
    { cfg \in CallConfigs :
        /\ cfg.apiKey = Some("key-A") /\ cfg.serviceToken = None
        /\ cfg.maxRetries \in { Some(1), Some(2) }
        /\ cfg.retryDelay = Some(3) }

ConcArgs ==
    { Args("listMemories", << >>, None, None, None, NoUpdates),
      Args("deleteMemory", << "a" >>, None, None, None, NoUpdates),
      Args("createMemory", << " " >>, None, None, None, NoUpdates) }

ConcOutcomes ==
    { Ok(SparseBody), HttpError(503, FullBody), HttpError(400, FullBody),
      NoResponseError("timeout of 100ms exceeded"), OtherError }

ConstructConc == \E cfg \in ConcConfigs : Construct(cfg)

\* requestFn of call c settles with outcome o, which the call's history keeps
Hear(c, o) ==
    /\ calls[c].pc = "awaiting"
    /\ calls' = [ calls EXCEPT ![c] =
                    [ AfterAttempt(client, calls[c], o)
                        EXCEPT !.heard = Append(calls[c].heard, o) ] ]
    /\ UNCHANGED << config, client, ctorError >>

ConcInvoke(c) == \E args \in ConcArgs : Invoke(c, args)

ConcHear(c) == \E o \in ConcOutcomes : Hear(c, o)

NextConc ==
    \/ ConstructConc
    \/ \E c \in CallIds : ConcInvoke(c)
    \/ \E c \in CallIds : ConcHear(c)
    \/ \E c \in CallIds : Wake(c)
    \/ \E c \in CallIds : Settle(c)

SpecConc == Init /\ [][NextConc]_vars

\* An autonomous-feature client next to the core client: call 1 is a core
\* method, call 2 is WorkingMemoryClient.createSession, which posts through
\* its own axios instance with no retry loop and no error conversion
AutoConfigs == StatusConfigs

AutoArgs == Args("createSession", << "n" >>, None, None, None, NoUpdates)

AutoOutcomes ==
    { Ok(SparseBody), HttpError(404, FullBody), HttpError(404, HtmlBody),
      HttpError(500, FullBody), NoResponseError("timeout of 100ms exceeded") }

\* the request of createSession: POST /sessions with the instance's headers
SessionRequest(cfg, args) ==
    [ verb    |-> "POST",
      path    |-> [ template |-> "/sessions", id |-> << >> ],
      payload |-> [ text |-> Some(args.text), user_id |-> None, depth |-> None,
                    days |-> None, updates |-> NoUpdates ],
      headers |-> { << "X-API-Key", cfg.apiKey >>,
                    << "Content-Type", Some("application/json") >> } ]

\* createSession(config) up to its await of this.client.post
createSession(c) ==
    /\ client.built
    /\ calls[c].pc = "idle"
    /\ calls' = [ calls EXCEPT ![c] =
                    [ IdleCall EXCEPT !.pc = "awaiting", !.args = Some(AutoArgs),
                                      !.requestCalls = 1,
                                      !.requests = << SessionRequest(config[1], AutoArgs) >> ] ]
    /\ UNCHANGED << config, client, ctorError >>

\* the post settles: response.data is returned, a rejection passes through
SessionSettled(c, o) ==
    /\ calls[c].pc = "awaiting"
    /\ calls' = [ calls EXCEPT ![c] =
                    IF o.kind = "ok"
                    THEN [ calls[c] EXCEPT !.pc = "returned", !.outcome = Some(o),
                                           !.log = Append(@, OutcomeClass(o)),
                                           !.result = Some([ type |-> "body",
                                                             value |-> o.body ]) ]
                    ELSE [ calls[c] EXCEPT !.pc = "thrown", !.outcome = Some(o),
                                           !.log = Append(@, OutcomeClass(o)),
                                           !.error = Some(RawError(o)) ] ]
    /\ UNCHANGED << config, client, ctorError >>

ConstructAuto == \E cfg \in AutoConfigs : Construct(cfg)

InvokeCore == \E args \in StatusArgs : Invoke(1, args)

RespondCore == \E o \in AutoOutcomes : Respond(1, o)

DoSessionSettled == \E o \in AutoOutcomes : SessionSettled(2, o)

NextAuto ==
    \/ ConstructAuto
    \/ InvokeCore \/ RespondCore \/ Wake(1) \/ Settle(1)
    \/ createSession(2) \/ DoSessionSettled \/ Settle(2)

SpecAuto == Init /\ [][NextAuto]_vars

\* calculateBackoff on its own: an api-key client built with every pair of
\* delays, then the delay computed for every attempt index
BackoffConfigs ==
    [ apiKey : { Some("key-A") }, serviceToken : { None }, baseUrl : { None },
      timeout : { None }, maxRetries : { None },
      retryDelay : OptNums(0 .. MaxDelayCfg),
      maxRetryDelay : OptNums(0 .. MaxDelayCfg) ]

ConstructBackoff == \E cfg \in BackoffConfigs : Construct(cfg)

\* this.calculateBackoff(attempt), its result kept as the delay to sleep
Backoff(c, attempt) ==
    /\ client.built
    /\ calls[c].pc = "idle"
    /\ calls' = [ calls EXCEPT ![c] =
                    [ IdleCall EXCEPT !.attempt = attempt,
                                      !.slept = << calculateBackoff(client, attempt) >> ] ]
    /\ UNCHANGED << config, client, ctorError >>

DoBackoff == \E a \in 0 .. MaxAttemptIdx : Backoff(1, a)

NextBackoff == ConstructBackoff \/ DoBackoff

SpecBackoff == Init /\ [][NextBackoff]_vars

----------------------------------------------------------------------------
(* Properties                                                              *)

\* what the caller configured, as opposed to what the client stored
Cfg == config[1]

MaxRetriesOf == client.retryConfig.maxRetries

\* every attempt of the call so far failed with a retryable failure
AllRetryable(log) == \A i \in 1 .. Len(log) : log[i] = "retryable"

\* min(retryDelay * 2^i, maxRetryDelay), from the stored retry policy
BackoffAt(i) ==
    Min(client.retryConfig.retryDelay * Pow2(i), client.retryConfig.maxRetryDelay)

RECURSIVE BackoffSum(_)
\* sum of BackoffAt(i) for i in 0 .. n-1
BackoffSum(n) == IF n <= 0 THEN 0 ELSE BackoffSum(n - 1) + BackoffAt(n - 1)

\* the latest attempt answered with an HTTP error status
LatestIsHttpError(cs) ==
    cs.outcome /= None /\ cs.outcome[1].kind = "axios" /\ cs.outcome[1].hasResponse

\* C1: with stored maxRetries = N >= 0, a call whose every attempt fails with a
\* retryable failure throws after exactly N+1 invocations of the request
\* function, having slept at least the sum of min(retryDelay*2^i, maxRetryDelay)
\* for i in 0..N-1.
C1_ExhaustAttempts ==
    \A c \in CallIds :
        LET cs == calls[c]
        IN  ( /\ client.built
              /\ cs.pc = "thrown"
              /\ cs.log /= << >>
              /\ AllRetryable(cs.log)
              /\ MaxRetriesOf >= 0 )
            => /\ cs.requestCalls = MaxRetriesOf + 1
               /\ Len(cs.log) = MaxRetriesOf + 1
               /\ SumSeq(cs.slept) >= BackoffSum(MaxRetriesOf)

C1_Witness ==
    \E c \in CallIds :
        /\ client.built
        /\ calls[c].pc = "thrown"
        /\ AllRetryable(calls[c].log)
        /\ MaxRetriesOf = 3
        /\ calls[c].requestCalls = 4
        /\ SumSeq(calls[c].slept) = 13

\* C2: a call whose first attempt receives 400, 401, 403 or 404 makes exactly
\* one attempt, sleeps never, and throws a RecallBricksError carrying that
\* status, whatever maxRetries is.
C2_TerminalFirstAttempt ==
    \A c \in CallIds :
        LET cs == calls[c]
        IN  ( /\ cs.requestCalls = 1
              /\ LatestIsHttpError(cs)
              /\ cs.outcome[1].status \in { 400, 401, 403, 404 } )
            => /\ cs.pc = "thrown"
               /\ cs.slept = << >>
               /\ cs.error /= None
               /\ cs.error[1].name = "RecallBricksError"
               /\ cs.error[1].statusCode = Some(cs.outcome[1].status)

\* C3: a client constructed with maxRetries = 0 executes each operation exactly
\* once: no second attempt and no backoff sleep, whatever the first failure.
C3_ZeroRetriesOnce ==
    \A c \in CallIds :
        ( client.built /\ Cfg.maxRetries = Some(0) )
        => /\ calls[c].requestCalls <= 1
           /\ calls[c].slept = << >>
           /\ calls[c].pc /= "sleeping"

C5_All5xxRetried ==
    \A c \in CallIds :
        LET cs == calls[c]
        IN  ( /\ LatestIsHttpError(cs)
              /\ cs.outcome[1].status >= 500
              /\ cs.attempt < MaxRetriesOf )
            => cs.pc /= "thrown"

\* the method accepts its own arguments (non-blank text, query or context)
OwnArgsAccepted(args) ==
    \/ args.method \in { "listMemories", "predictMemories" }
    \/ \E i \in 1 .. Len(args.text) : args.text[i] /= " "

FailedMissingUserId(cs) ==
    cs.pc = "thrown" /\ cs.error /= None /\ cs.error[1].code = Some("MISSING_USER_ID")

\* C6: a subject-scoped call that passes its own argument validation fails with
\* MISSING_USER_ID if and only if the client was built with a service token and
\* the userId is absent or empty; it then has made no attempt and slept never.
C6_MissingUserId ==
    \A c \in CallIds :
        LET cs == calls[c]
            args == cs.args[1]
        IN  ( cs.pc /= "idle" /\ args.method \in SubjectScoped /\ OwnArgsAccepted(args) )
            => /\ FailedMissingUserId(cs)
                    <=> ( TruthyStr(Cfg.serviceToken) /\ args.userId \in { None, Some("") } )
               /\ FailedMissingUserId(cs)
                    => ( cs.requestCalls = 0 /\ cs.slept = << >> /\ cs.log = << >>
                         /\ cs.error[1].name = "RecallBricksError" )

C6_Witness ==
    \E c \in CallIds :
        /\ FailedMissingUserId(calls[c])
        /\ calls[c].args[1].method = "searchWeighted"
        /\ calls[c].args[1].userId = Some("")
        /\ Cfg.serviceToken = Some("tok-A")

Present(credential) == credential /= None /\ credential /= Some("")

\* C7: construction succeeds if and only if exactly one of apiKey and
\* serviceToken is present (an empty string is absent); with neither it throws
\* MISSING_AUTH, with both INVALID_AUTH_CONFIG, and then no instance field
\* (transport client, retry policy) exists and no call has been made.
C7_ExactlyOneCredential ==
    config /= None =>
        LET key == Present(Cfg.apiKey)
            tok == Present(Cfg.serviceToken)
            thrown(code) ==
                /\ ctorError /= None
                /\ ctorError[1].name = "RecallBricksError"
                /\ ctorError[1].code = Some(code)
                /\ client = NoClient
                /\ \A c \in CallIds : calls[c] = IdleCall
        IN  /\ client.built <=> (key /= tok)
            /\ client.built => ctorError = None
            /\ (~key /\ ~tok) => thrown("MISSING_AUTH")
            /\ (key /\ tok) => thrown("INVALID_AUTH_CONFIG")

C7_Witness ==
    /\ config /= None
    /\ Cfg.apiKey = Some("")
    /\ Cfg.serviceToken = Some("")
    /\ ctorError /= None
    /\ ctorError[1].code = Some("MISSING_AUTH")

\* the option as the client must hold it: the supplied value when it is a
\* non-negative integer, the default when the option is absent
Held(option, default, held) ==
    /\ (option /= None /\ option[1] >= 0) => held = option[1]
    /\ option = None => held = default

\* C8: the retry policy and the timeout of a constructed client equal the
\* supplied values whenever those are non-negative integers (0 included);
\* the defaults 3, 1000, 10000 and 30000 apply only to absent fields.
C8_SuppliedValuesKept ==
    client.built =>
        /\ Held(Cfg.maxRetries, 3, client.retryConfig.maxRetries)
        /\ Held(Cfg.retryDelay, 1000, client.retryConfig.retryDelay)
        /\ Held(Cfg.maxRetryDelay, 10000, client.retryConfig.maxRetryDelay)
        /\ Held(Cfg.timeout, 30000, client.timeout)

\* C9: a call whose first k attempts (k <= maxRetries) fail with retryable
\* failures and whose attempt k+1 succeeds returns what that attempt produced,
\* after exactly k+1 attempts and exactly k backoff sleeps; for k = 0 that is
\* one attempt and no sleep under every maxRetries.
C9_SuccessAfterRetries ==
    \A c \in CallIds :
        LET cs == calls[c]
            k == Len(cs.log) - 1
        IN  ( /\ cs.log /= << >>
              /\ cs.log[Len(cs.log)] = "ok"
              /\ AllRetryable(SubSeq(cs.log, 1, k))
              /\ k <= MaxRetriesOf )
            => /\ cs.pc = "returned"
               /\ cs.error = None
               /\ cs.result =
                    IF cs.args[1].method = "deleteMemory"
                    THEN Some([ type |-> "boolean", value |-> "true" ])
                    ELSE Some([ type |-> "body", value |-> cs.outcome[1].body ])
               /\ cs.requestCalls = k + 1
               /\ Len(cs.slept) = k
               /\ \A i \in 1 .. k : cs.slept[i] = BackoffAt(i - 1)

C9_Witness ==
    \E c \in CallIds :
        /\ calls[c].pc = "returned"
        /\ calls[c].log = << "retryable", "retryable", "ok" >>
        /\ calls[c].result = Some([ type |-> "body", value |-> ExtraBody ])
        /\ Len(calls[c].slept) = 2

C11_BackoffCapped ==
    \A c \in CallIds :
        LET cs    == calls[c]
            rd    == client.retryConfig.retryDelay
            cap   == client.retryConfig.maxRetryDelay
        IN  (client.built /\ cs.pc = "idle" /\ cs.slept /= << >>
                /\ rd >= 0 /\ cap >= 0)
            => LET d   == cs.slept[1]
                   raw == rd * (2 ^ cs.attempt)
               IN  /\ d = (IF raw <= cap THEN raw ELSE cap)
                   /\ d >= 0
                   /\ d <= cap

\* C11 witness: the delay for attempt 0 was computed with retryDelay above
\* maxRetryDelay, and it is maxRetryDelay.
C11_Witness ==
    /\ client.built
    /\ client.retryConfig.retryDelay > client.retryConfig.maxRetryDelay
    /\ calls[1].pc = "idle" /\ calls[1].attempt = 0
    /\ calls[1].slept = << client.retryConfig.maxRetryDelay >>

\* a string that is empty or made of white space only
AllSpaces(t) == \A i \in 1 .. Len(t) : t[i] = " "

\* the calls an endpoint method's own argument validation rejects
RejectedByValidation(args) ==
    \/ /\ args.method \in { "createMemory", "search", "suggestMemories", "searchWeighted",
                            "getRelationships", "getGraphContext", "deleteMemory",
                            "updateMemory" }
       /\ AllSpaces(args.text)
    \/ /\ args.method = "getGraphContext"
       /\ args.depth /= None /\ args.depth[1] \notin 1 .. 10
    \/ /\ args.method \in { "getLearningMetrics", "getPatterns" }
       /\ args.days /= None /\ args.days[1] < 1
    \/ /\ args.method = "updateMemory"
       /\ \/ args.updates = NoUpdates
          \/ args.updates.text /= None /\ AllSpaces(args.updates.text[1])

\* C12: a call rejected by its method's own argument validation (blank text,
\* query, context or memory id, depth outside 1..10, days below 1, updateMemory
\* with empty updates or blank text) throws RecallBricksError INVALID_INPUT with
\* no invocation of the request function, no attempt consumed and no sleep.
C12_InvalidInputLocal ==
    \A c \in CallIds :
        LET cs == calls[c]
        IN  (cs.pc /= "idle" /\ RejectedByValidation(cs.args[1]))
            => /\ cs.pc = "thrown"
               /\ cs.error[1].name = "RecallBricksError"
               /\ cs.error[1].code = Some("INVALID_INPUT")
               /\ cs.requestCalls = 0
               /\ cs.attempt = 0
               /\ cs.slept = << >>
               /\ cs.log = << >>

\* C12 witness: getGraphContext with a good memory id and depth 11 threw
\* INVALID_INPUT without a request.
C12_Witness ==
    /\ calls[1].pc = "thrown"
    /\ calls[1].args = Some(Args("getGraphContext", << "a" >>, None, Some(11), None, NoUpdates))
    /\ calls[1].error[1].code = Some("INVALID_INPUT")
    /\ calls[1].requestCalls = 0

\* C13: every failure a public method surfaces, whether it came from local
\* validation, from an HTTP error response, from a transport failure or from
\* any other error raised during an attempt, is a RecallBricksError with the
\* fields message, statusCode, code and details.
C13_OnlyRecallBricksError ==
    \A c \in CallIds :
        calls[c].pc = "thrown"
        => calls[c].error[1].name = "RecallBricksError"

\* C14: a call that throws on an attempt answered with an HTTP response throws,
\* whatever the shape of the body (object with or without error, code and
\* details, string, empty or null), a RecallBricksError whose statusCode is the
\* response status, whose code and details are the body's when present, and
\* whose message is the body's error when present, else the transport message.
C14_NormalizedHttpError ==
    \A c \in CallIds :
        LET cs == calls[c]
        IN  (cs.pc = "thrown" /\ LatestIsHttpError(cs))
            => LET o == cs.outcome[1]
                   e == cs.error[1]
               IN  /\ e.name = "RecallBricksError"
                   /\ e.statusCode = Some(o.status)
                   /\ e.code = o.data.code
                   /\ e.details = o.data.details
                   /\ e.message = (IF o.data.error /= None THEN o.data.error[1]
                                   ELSE o.message)

\* the latest attempt was sent and got no response (connection failure, timeout)
LatestIsNoResponse(cs) ==
    /\ cs.outcome /= None /\ cs.outcome[1].kind = "axios"
    /\ ~cs.outcome[1].hasResponse /\ cs.outcome[1].hasRequest

\* an attempt without response is retried while the budget lasts: a call that
\* throws on one has used its last attempt
NoResponseUsesBudget(cs) ==
    /\ cs.log[Len(cs.log)] = "retryable"
    /\ cs.attempt = MaxRetriesOf
    /\ cs.requestCalls = MaxRetriesOf + 1
    /\ Len(cs.slept) = MaxRetriesOf

AuthHeaderNames == { "X-Service-Token", "X-API-Key" }

\* the headers named by one of the given names
HeadersNamed(headers, names) == { h \in headers : h[1] \in names }

\* C16: every request a call sends, first attempt and retries alike, carries
\* exactly one authentication header, X-Service-Token with the configured token
\* when the client was built with a service token and X-API-Key with the
\* configured key otherwise, never both, and Content-Type application/json.
C16_OneAuthHeader ==
    \A c \in CallIds :
        /\ Len(calls[c].requests) = calls[c].requestCalls
        /\ \A i \in 1 .. Len(calls[c].requests) :
              LET h == calls[c].requests[i].headers
              IN  /\ Cardinality(HeadersNamed(h, AuthHeaderNames)) = 1
                  /\ HeadersNamed(h, AuthHeaderNames)
                       = IF Present(Cfg.serviceToken)
                         THEN { << "X-Service-Token", Cfg.serviceToken >> }
                         ELSE { << "X-API-Key", Cfg.apiKey >> }
                  /\ HeadersNamed(h, { "Content-Type" })
                       = { << "Content-Type", Some("application/json") >> }

\* C16 witness: a service-token client has sent a third attempt carrying
\* X-Service-Token with its token.
C16_Witness ==
    /\ client.built
    /\ Cfg.serviceToken = Some("tok-A")
    /\ Len(calls[1].requests) = 3
    /\ << "X-Service-Token", Some("tok-A") >> \in calls[1].requests[3].headers
    /\ calls[1].log = << "retryable", "retryable" >>

\* the credential values of the client and of its twin
CredentialValues == { "key-A", "key-B", "tok-A", "tok-B" }

\* C17: two clients that differ only in the value of their apiKey (or of their
\* serviceToken), given the same calls and the same responses, throw at the same
\* points errors with the same message, statusCode and code, and no message is
\* a credential.
C17_CredentialIndependent ==
    /\ (calls[1].pc = "thrown") <=> (calls[2].pc = "thrown")
    /\ calls[1].pc = "thrown"
        => /\ calls[1].error[1].message = calls[2].error[1].message
           /\ calls[1].error[1].statusCode = calls[2].error[1].statusCode
           /\ calls[1].error[1].code = calls[2].error[1].code
           /\ calls[1].error[1].message \notin CredentialValues
           /\ calls[2].error[1].message \notin CredentialValues

\* C17 witness: a service-token client and its twin, having sent different
\* tokens, both threw NO_RESPONSE.
C17_Witness ==
    /\ client.built
    /\ Cfg.serviceToken = Some("tok-A")
    /\ calls[1].pc = "thrown" /\ calls[2].pc = "thrown"
    /\ calls[1].requests /= << >>
    /\ calls[1].requests[1].headers /= calls[2].requests[1].headers
    /\ calls[1].error[1].code = Some("NO_RESPONSE")

\* C18: the value a data-returning method returns is the decoded body of the
\* successful attempt, with no field added, dropped or altered, whatever fields
\* the body has or lacks; deleteMemory returns true on any successful attempt.
C18_BodyReturnedUnchanged ==
    \A c \in CallIds :
        LET cs == calls[c]
        IN  cs.pc = "returned"
            => /\ cs.outcome[1].kind = "ok"
               /\ IF cs.args[1].method = "deleteMemory"
                  THEN cs.result[1].type = "boolean" /\ cs.result[1].value = "true"
                  ELSE /\ cs.result[1].type = "body"
                       /\ \A f \in cs.result[1].value : f \in cs.outcome[1].body
                       /\ \A f \in cs.outcome[1].body : f \in cs.result[1].value

\* C18 witness: search returned a body with an undeclared field as it was.
C18_Witness ==
    /\ calls[1].pc = "returned"
    /\ calls[1].args[1].method = "search"
    /\ calls[1].outcome[1].body = ExtraBody
    /\ << "unexpected_field", "12345" >> \in calls[1].result[1].value

RECURSIVE Alone(_, _, _)
\* the call as it stands after being given the outcomes hs one by one with
\* no other call on the client, each sleep but the last one over
Alone(cl, cs, hs) ==
    IF hs = << >> THEN cs
    ELSE LET after == AfterAttempt(cl, cs, Head(hs))
         IN  IF Tail(hs) = << >> THEN after
             ELSE Alone(cl, Woken(cl, after), Tail(hs))

\* the states a call running alone can be in with these arguments and outcomes
AloneStates(cl, args, hs) ==
    LET last == Alone(cl, Invoked(cl, args), hs)
    IN  { last } \cup (IF last.pc = "sleeping" THEN { Woken(cl, last) } ELSE { })

\* C19: with several calls in flight on one client, under every interleaving
\* each call's attempt count, backoff delays, attempt counter, last error and
\* outcome are those of the same call running alone on its own sequence of
\* responses, and a call sleeping in backoff never keeps another call from
\* starting, from being answered, from waking or from completing.
C19_CallsIndependent ==
    \A c \in CallIds :
        /\ calls[c].pc /= "idle"
            => [ calls[c] EXCEPT !.heard = << >> ]
                 \in AloneStates(client, calls[c].args[1], calls[c].heard)
        /\ \A d \in CallIds \ { c } :
              calls[d].pc = "sleeping"
              => /\ calls[c].pc = "idle" => ENABLED ConcInvoke(c)
                 /\ calls[c].pc = "awaiting" => ENABLED ConcHear(c)
                 /\ calls[c].pc = "sleeping" => ENABLED Wake(c)
                 /\ calls[c].pc \in { "returned", "thrown" } => ENABLED Settle(c)

\* C19 witness: call 1 is asleep before its third attempt while call 2, started
\* and answered meanwhile, has returned after one retry.
C19_Witness ==
    /\ calls[1].pc = "sleeping" /\ Len(calls[1].slept) = 2
    /\ calls[2].pc = "returned" /\ calls[2].requestCalls = 2
    /\ calls[2].slept = << 3 >>

\* C20: when every one of the maxRetries+1 attempts of a call has failed with
\* a retryable failure (retries exhausted), the error thrown is a
\* RecallBricksError whose message is 'Request failed after retries'.
C20_ExhaustedMessage ==
    \A c \in CallIds :
        LET cs == calls[c]
        IN  ( /\ cs.pc = "thrown"
              /\ cs.log /= << >>
              /\ AllRetryable(cs.log)
              /\ Len(cs.log) = MaxRetriesOf + 1 )
            => /\ cs.error[1].name = "RecallBricksError"
               /\ cs.error[1].message = "Request failed after retries"

\* C21: a call answered with HTTP 404, on an autonomous-feature client
\* (WorkingMemoryClient.createSession) as on the core client, throws an error
\* whose statusCode is 404.
C21_AutonomousStatusCode ==
    \A c \in CallIds :
        LET cs == calls[c]
        IN  (cs.pc = "thrown" /\ LatestIsHttpError(cs) /\ cs.outcome[1].status = 404)
            => cs.error[1].statusCode = Some(404)

\* C22: once the client is constructed, no step of any call (successful,
\* failing locally, retried or throwing) changes its auth mode, its credential
\* header, its base address, its timeout or its retry policy.
C22_ClientImmutable ==
    [][ client.built
        => /\ client'.usingServiceToken = client.usingServiceToken
           /\ client'.headers = client.headers
           /\ client'.baseURL = client.baseURL
           /\ client'.timeout = client.timeout
           /\ client'.retryConfig = client.retryConfig ]_vars

\* C22 witness: a client with its own retry delay has retried a call to
\* exhaustion and still holds the policy it was built with.
C22_Witness ==
    /\ client.built
    /\ Cfg.retryDelay = Some(3)
    /\ client.retryConfig.retryDelay = 3
    /\ calls[1].pc = "thrown"
    /\ Len(calls[1].slept) = MaxRetriesOf
    /\ MaxRetriesOf >= 1

\* C23: if attempts 0..j-1 of a call fail with retryable failures and attempt
\* j (j <= maxRetries) is answered with a terminal HTTP status, the call throws
\* after exactly j+1 attempts, with no sleep after attempt j, and the error
\* thrown is the normalization of attempt j's response.
C23_TerminalStopsLoop ==
    \A c \in CallIds :
        LET cs == calls[c]
            j  == Len(cs.log) - 1
        IN  ( /\ cs.log /= << >>
              /\ cs.log[Len(cs.log)] = "terminal"
              /\ AllRetryable(SubSeq(cs.log, 1, j)) )
            => /\ j <= MaxRetriesOf
               /\ cs.pc = "thrown"
               /\ cs.attempt = j
               /\ cs.requestCalls = j + 1
               /\ Len(cs.slept) = j
               /\ LatestIsHttpError(cs)
               /\ cs.error[1].name = "RecallBricksError"
               /\ cs.error[1].statusCode = Some(cs.outcome[1].status)
               /\ cs.error = Some(handleAxiosError(cs.outcome[1]))

\* the latest attempt failed while the request was being set up: an axios
\* error with neither a response nor a request
LatestIsSetupError(cs) ==
    /\ cs.outcome /= None /\ cs.outcome[1].kind = "axios"
    /\ ~cs.outcome[1].hasResponse /\ ~cs.outcome[1].hasRequest

\* C24: a failure raised while setting up the request, before anything is
\* dispatched, is terminal: the request function is invoked exactly once, no
\* backoff sleep occurs, and the error thrown carries the code
\* REQUEST_SETUP_ERROR and no status code.
C24_SetupErrorTerminal ==
    \A c \in CallIds :
        LET cs == calls[c]
        IN  (Len(cs.log) = 1 /\ LatestIsSetupError(cs))
            => /\ cs.pc = "thrown"
               /\ cs.requestCalls = 1
               /\ cs.slept = << >>
               /\ cs.error[1].name = "RecallBricksError"
               /\ cs.error[1].code = Some("REQUEST_SETUP_ERROR")
               /\ cs.error[1].statusCode = None

\* C25: an error thrown by the request function that is not an axios failure
\* is never retried and never wrapped: the call throws at the attempt where it
\* occurs, with no further invocation and no sleep after it, and the value
\* thrown is that error itself.
C25_OtherErrorAsIs ==
    \A c \in CallIds :
        LET cs == calls[c]
            j  == Len(cs.log) - 1
        IN  (cs.log /= << >> /\ cs.log[Len(cs.log)] = "other")
            => /\ cs.pc = "thrown"
               /\ cs.attempt = j
               /\ cs.requestCalls = j + 1
               /\ Len(cs.slept) = j
               /\ cs.error[1].name = "Error"
               /\ cs.error[1].message = cs.outcome[1].message
               /\ cs.error[1].statusCode = None
               /\ cs.error[1].code = None
               /\ cs.error[1].details = None

\* C25 witness: after one retried failure the request function threw a plain
\* Error on the second attempt, and the call threw it with retries left.
C25_Witness ==
    /\ calls[1].pc = "thrown"
    /\ calls[1].log = << "retryable", "other" >>
    /\ MaxRetriesOf >= 2
    /\ calls[1].requestCalls = 2
    /\ calls[1].error[1].name = "Error"

\* the calls the subject-id check rejects on this client
LacksSubjectId(args) ==
    /\ Present(Cfg.serviceToken)
    /\ args.method \in { "createMemory", "listMemories", "search", "predictMemories",
                          "suggestMemories", "searchWeighted" }
    /\ args.userId \in { None, Some("") }

\* C26: within a call the method's own argument validation runs first, then
\* the subject-id check, then the first attempt: a call failing both checks
\* throws INVALID_INPUT, not MISSING_USER_ID, a call failing only the second
\* throws MISSING_USER_ID, and no request is made unless both checks pass.
C26_CheckOrder ==
    \A c \in CallIds :
        LET cs == calls[c]
        IN  cs.pc /= "idle"
            => /\ RejectedByValidation(cs.args[1])
                   => cs.pc = "thrown" /\ cs.error[1].code = Some("INVALID_INPUT")
               /\ (~RejectedByValidation(cs.args[1]) /\ LacksSubjectId(cs.args[1]))
                   => cs.pc = "thrown" /\ cs.error[1].code = Some("MISSING_USER_ID")
               /\ cs.requestCalls >= 1
                   => ~RejectedByValidation(cs.args[1]) /\ ~LacksSubjectId(cs.args[1])

\* C26 witness: a service-token client called createMemory with a blank text
\* and no userId, and the call threw INVALID_INPUT without a request.
C26_Witness ==
    /\ client.built
    /\ Cfg.serviceToken = Some("tok-A")
    /\ calls[1].pc = "thrown"
    /\ calls[1].args = Some(Args("createMemory", << " " >>, None, None, None, NoUpdates))
    /\ calls[1].error[1].code = Some("INVALID_INPUT")
    /\ calls[1].requestCalls = 0

\* C27: within one call attempts and backoff sleeps strictly alternate,
\* starting and ending with an attempt: the sleep after attempt i lasts
\* min(retryDelay * 2^i, maxRetryDelay), no attempt is in flight during a
\* sleep, nothing is slept before the first attempt or after the final one, so
\* a finished call has slept once less than it has attempted.
C27_AttemptsAndSleepsAlternate ==
    \A c \in CallIds :
        LET cs == calls[c]
        IN  /\ \A i \in 1 .. Len(cs.slept) : cs.slept[i] = BackoffAt(i - 1)
            /\ cs.pc = "awaiting"
                => cs.requestCalls = Len(cs.log) + 1 /\ Len(cs.slept) = Len(cs.log)
            /\ cs.pc = "sleeping"
                => cs.requestCalls = Len(cs.log) /\ Len(cs.slept) = Len(cs.log)
            /\ (cs.pc \in { "returned", "thrown" }
                   /\ ~RejectedByValidation(cs.args[1]) /\ ~LacksSubjectId(cs.args[1]))
                => /\ cs.requestCalls = Len(cs.log)
                   /\ Len(cs.slept) = cs.requestCalls - 1

\* a call that has entered executeWithRetry and not yet left it
InRetryLoop(c) == calls[c].pc \in { "awaiting", "sleeping" }

Completed(c) == calls[c].pc \in { "returned", "thrown" }

\* with stored maxRetries >= 0, a call that passed the local checks has made
\* at least one attempt and at most maxRetries + 1
AttemptsBounded ==
    \A c \in CallIds :
        ( /\ client.built /\ MaxRetriesOf >= 0
          /\ calls[c].pc /= "idle"
          /\ ~RejectedByValidation(calls[c].args[1])
          /\ ~LacksSubjectId(calls[c].args[1]) )
        => /\ calls[c].requestCalls >= 1
           /\ calls[c].requestCalls <= MaxRetriesOf + 1

\* C28: provided every attempt is answered and every backoff sleep ends, every
\* call that entered executeWithRetry eventually returns or throws; and for
\* every stored maxRetries >= 0 and every sequence of outcomes the number of
\* attempts is at least 1 and at most maxRetries + 1.
C28_CallCompletes ==
    /\ []AttemptsBounded
    /\ \A c \in SeqCalls : InRetryLoop(c) ~> Completed(c)

\* C28 witness: a call with maxRetries 2 completed by throwing after its third
\* attempt, every earlier attempt having been answered and slept on.
C28_Witness ==
    /\ client.built /\ MaxRetriesOf = 2
    /\ Completed(1)
    /\ calls[1].requestCalls = 3
    /\ calls[1].log = << "retryable", "retryable", "retryable" >>

\* C29: for every configuration the constructor accepts, a call that passes
\* the argument validation and the subject-id check makes at least one
\* attempt, and the post-loop fallback error 'Request failed after retries'
\* (status 500) is never thrown.
C29_FallbackNeverThrown ==
    \A c \in CallIds :
        LET cs == calls[c]
        IN  ( /\ cs.pc /= "idle"
              /\ ~RejectedByValidation(cs.args[1])
              /\ ~LacksSubjectId(cs.args[1]) )
            => /\ cs.requestCalls >= 1
               /\ cs.pc = "thrown"
                   => ~( /\ cs.error[1].message = "Request failed after retries"
                         /\ cs.error[1].statusCode = Some(500) )

\* C30: all the attempts of one call send the same request: the HTTP method,
\* the path, the payload and the headers of every retry are those of the first
\* attempt.
C30_SameRequestEveryAttempt ==
    \A c \in CallIds :
        \A i \in 1 .. Len(calls[c].requests) :
            /\ calls[c].requests[i].verb = calls[c].requests[1].verb
            /\ calls[c].requests[i].path = calls[c].requests[1].path
            /\ calls[c].requests[i].payload = calls[c].requests[1].payload
            /\ calls[c].requests[i].headers = calls[c].requests[1].headers

\* C30 witness: createMemory on a service-token client has sent its third
\* attempt, a POST carrying the text and the user_id like the first.
C30_Witness ==
    /\ Len(calls[1].requests) = 3
    /\ calls[1].args[1].method = "createMemory"
    /\ calls[1].requests[3].verb = "POST"
    /\ calls[1].requests[3].payload.user_id = Some("user-1")
    /\ calls[1].requests[3].payload.text = Some(<< "a" >>)
    /\ << "X-Service-Token", Some("tok-A") >> \in calls[1].requests[3].headers

====
